---- MODULE Spec2Model ----
(***************************************************************************)
(* petitdb: SmallDB (a shelve file mirrored by the staging area db_ref,    *)
(* with the dirty-table log) and MemDB (its memory-only subclass).         *)
(*                                                                         *)
(* One store instance is driven through its public methods.  The shelve    *)
(* files are a map from file name to the tables the file holds; shelve     *)
(* pickles on write and unpickles on read, so the staging area and the     *)
(* files share no objects and both are modelled by value.  Values handed   *)
(* to insert/update are fresh objects (no aliasing by the caller).         *)
(***************************************************************************)
EXTENDS Integers, Sequences, FiniteSets, TLC

\* ---------------------------------------------------------------- bounds
MaxOps == 4     \* method calls made on the store after its construction
MaxInt == 1     \* numeric values are 0..MaxInt (add is not called beyond it)
MaxLen == 1     \* list values hold at most MaxLen items

\* ---------------------------------------------------------------- domains
Tables == {"a", "b"}
Keys   == {"k", "j"}
Files  == {"f", "g"}
None   == "None"

IntVal(n)  == [tag |-> "int",  items |-> <<n>>]
ListVal(s) == [tag |-> "list", items |-> s]

\* the objects the caller inserts, and the operands of add and append
InsertVals == {IntVal(0), ListVal(<< >>)}
AddVals    == {IntVal(1), ListVal(<<0>>)}
AppendVals == {0}

EmptyMap == [x \in {} |-> 0]
Put(m, x, v) == [y \in (DOMAIN m) \cup {x} |-> IF y = x THEN v ELSE m[y]]
Del(m, x)    == [y \in (DOMAIN m) \ {x} |-> m[y]]

\* the contents a shelve file may hold before the store is constructed
InitBackends ==
    { EmptyMap,
      Put(EmptyMap, "a", Put(EmptyMap, "k", IntVal(0))),
      Put(Put(EmptyMap, "a", Put(EmptyMap, "k", ListVal(<< >>))), "b", EmptyMap) }

Mutators == {"create_table", "insert", "update", "append", "add", "remove",
             "remove_table", "save", "drop"}

VARIABLES
    files,      \* file name -> (table name -> table): what each shelve file holds
    exists,     \* the shelve files that exist on disk
    kind,       \* "SmallDB" or "MemDB": the class of the instance
    mode,       \* self.mode
    dbfile,     \* self.dbfile (None for a MemDB built without a source)
    db_ref,     \* self.db_ref, the staging area: table name -> (key -> value)
    log,        \* self.log, the dirty-table log (the keys of the dict)
    handle,     \* self.db: "open", "closed", or "none" (a MemDB has no shelf)
    mode0,      \* history: the mode given to the constructor of this instance
    closed,     \* history: close() has returned normally on this instance
    lastOp,     \* history: the method called last
    result,     \* history: "ok" or the exception the last call raised
    nops,       \* history: number of calls made
    effect,     \* history: the last call changed the staging area
    phase,      \* history: progress of an export/import round trip
    snap,       \* history: the staging area at the export of that round trip
    snapFile    \* history: the file the export was made to

vars == <<files, exists, kind, mode, dbfile, db_ref, log, handle, mode0, closed,
          lastOp, result, nops, effect, phase, snap, snapFile>>

\* ------------------------------------------------------------ construction

\* LoadAll with a load loop that skips the tables holding no record
LoadAll_skip_empty(backend) ==
    [t \in {u \in DOMAIN backend : DOMAIN backend[u] # {}} |-> backend[t]]

\* SmallDB.__open__: for key in self.db: self.db_ref[key] = self.db[key]
LoadAll(backend) == [t \in DOMAIN backend |-> backend[t]]

\* copy.deepcopy of a staging area
deepcopy(ref) == [t \in DOMAIN ref |-> [k \in DOMAIN ref[t] |-> ref[t][k]]]

\* MemDB.__open__: the staging area a MemDB starts with
MemDB_open(file) ==
    IF file # None THEN deepcopy(LoadAll(files[file])) ELSE EmptyMap

\* the staging area after running the constructor of this class on `file`
Opened(file) ==
    IF kind = "MemDB" THEN MemDB_open(file) ELSE LoadAll(files[file])

\* shelve.open creates the file when it does not exist
Touched(file) == IF file # None THEN exists \cup {file} ELSE exists

\* self.db after the constructor: a read-only SmallDB closes it at once
HandleAfterOpen(m) ==
    IF kind = "MemDB" THEN "none" ELSE IF m = "ro" THEN "closed" ELSE "open"

NoSnap == phase' = "none" /\ snap' = EmptyMap /\ snapFile' = None

Return(op, res) ==
    /\ lastOp' = op
    /\ result' = res
    /\ nops' = nops + 1
    /\ effect' = (db_ref' # db_ref)

\* a call that raises before it changed anything
Raise(op, err) ==
    /\ NoSnap
    /\ UNCHANGED <<files, exists, kind, mode, dbfile, db_ref, log, handle, mode0, closed>>
    /\ Return(op, err)

\* a mutator that changed the staging area and the log only
Staged(op, ref, lg) ==
    /\ db_ref' = ref
    /\ log' = lg
    /\ NoSnap
    /\ UNCHANGED <<files, exists, kind, mode, dbfile, handle, mode0, closed>>
    /\ Return(op, "ok")

Init ==
    /\ kind \in {"SmallDB", "MemDB"}
    /\ mode \in {"ro", "rw"}
    /\ mode0 = mode
    /\ dbfile \in IF kind = "SmallDB" THEN {"f"} ELSE {None, "f"}
    /\ \E bf \in InitBackends, bg \in {EmptyMap, Put(EmptyMap, "b", Put(EmptyMap, "j", IntVal(1)))} :
          /\ kind = "SmallDB" => bg = EmptyMap
          /\ files = [x \in Files |-> IF x = "f" THEN bf ELSE bg]
          /\ exists = {x \in Files : files[x] # EmptyMap} \cup (IF dbfile # None THEN {dbfile} ELSE {})
    /\ db_ref = Opened(dbfile)
    /\ log = {}
    /\ handle = HandleAfterOpen(mode)
    /\ closed = FALSE
    /\ lastOp = "init"
    /\ result = "ok"
    /\ nops = 0
    /\ effect = FALSE
    /\ phase = "none"
    /\ snap = EmptyMap
    /\ snapFile = None

\* ---------------------------------------------------------------- mutators

create_table(t) ==
    /\ nops < MaxOps
    /\ IF mode = "ro" THEN Raise("create_table", "ReadOnlyDatabaseError")
       ELSE Staged("create_table", Put(db_ref, t, EmptyMap), log \cup {t})

\* select(table_name, key): the exception it raises, or "ok"
select_result(t, k) ==
    IF t \notin DOMAIN db_ref THEN "TableReferenceError"
    ELSE IF k \notin DOMAIN db_ref[t] THEN "DBKeyError"
    ELSE "ok"

\* select(table_name, key) when it returns
select(t, k) == db_ref[t][k]

\* a read: nothing changes but the record of the call
Read(op, res) == Raise(op, res)

\* the call select(table_name, key), key = None included (all values of the table)
select_call(t, k) ==
    /\ nops < MaxOps
    /\ IF k = None
       THEN Read("select", IF t \in DOMAIN db_ref THEN "ok" ELSE "TableReferenceError")
       ELSE Read("select", select_result(t, k))

\* keys(table_name): the exception it raises, or "ok"
keys_result(t) == IF t \in DOMAIN db_ref THEN "ok" ELSE "TableReferenceError"

keys(t) ==
    /\ nops < MaxOps
    /\ Read("keys", keys_result(t))

tables ==
    /\ nops < MaxOps
    /\ Read("tables", "ok")

\* insert whose auto-create path returns after create_table, without the insert
insert_autocreate_only(t, k, v) ==
    /\ nops < MaxOps
    /\ IF mode = "ro" THEN Raise("insert", "ReadOnlyDatabaseError")
       ELSE IF t \notin DOMAIN db_ref
            THEN Staged("insert", Put(db_ref, t, EmptyMap), log \cup {t})
       ELSE IF k \in DOMAIN db_ref[t] THEN Raise("insert", "DuplicateKeyError")
       ELSE Staged("insert", Put(db_ref, t, Put(db_ref[t], k, v)), log \cup {t})

\* insert that replaces the value of an existing key instead of raising
insert_overwrite(t, k, v) ==
    /\ nops < MaxOps
    /\ IF mode = "ro" THEN Raise("insert", "ReadOnlyDatabaseError")
       ELSE IF t \notin DOMAIN db_ref
            THEN Staged("insert", Put(db_ref, t, Put(EmptyMap, k, v)), log \cup {t})
       ELSE Staged("insert", Put(db_ref, t, Put(db_ref[t], k, v)), log \cup {t})

insert(t, k, v) ==
    /\ nops < MaxOps
    /\ IF mode = "ro" THEN Raise("insert", "ReadOnlyDatabaseError")
       ELSE IF t \notin DOMAIN db_ref
            THEN Staged("insert", Put(db_ref, t, Put(EmptyMap, k, v)), log \cup {t})
       ELSE IF k \in DOMAIN db_ref[t] THEN Raise("insert", "DuplicateKeyError")
       ELSE Staged("insert", Put(db_ref, t, Put(db_ref[t], k, v)), log \cup {t})

\* update refusing a key that the table does not hold yet
update_strict(t, k, v) ==
    /\ nops < MaxOps
    /\ IF mode = "ro" THEN Raise("update", "ReadOnlyDatabaseError")
       ELSE IF t \notin DOMAIN db_ref THEN Raise("update", "TableReferenceError")
       ELSE IF k \notin DOMAIN db_ref[t] THEN Raise("update", "DBKeyError")
       ELSE Staged("update", Put(db_ref, t, Put(db_ref[t], k, v)), log \cup {t})

update(t, k, v) ==
    /\ nops < MaxOps
    /\ IF mode = "ro" THEN Raise("update", "ReadOnlyDatabaseError")
       ELSE IF t \notin DOMAIN db_ref THEN Raise("update", "TableReferenceError")
       ELSE Staged("update", Put(db_ref, t, Put(db_ref[t], k, v)), log \cup {t})

append(t, k, x) ==
    /\ nops < MaxOps
    /\ IF mode = "ro" THEN Raise("append", "ReadOnlyDatabaseError")
       ELSE IF select_result(t, k) # "ok" THEN Raise("append", select_result(t, k))
       ELSE IF select(t, k).tag # "list"
            \* AttributeError is caught and printed; the log line still runs
            THEN Staged("append", db_ref, log \cup {t})
       ELSE /\ Len(select(t, k).items) < MaxLen
            /\ Staged("append",
                      Put(db_ref, t, Put(db_ref[t], k, ListVal(Append(select(t, k).items, x)))),
                      log \cup {t})

\* tmp_obj += obj
iadd(cur, v) ==
    IF cur.tag = "int" THEN IntVal(cur.items[1] + v.items[1])
    ELSE ListVal(cur.items \o v.items)

InBounds(v) ==
    IF v.tag = "int" THEN v.items[1] <= MaxInt ELSE Len(v.items) <= MaxLen

add(t, k, v) ==
    /\ nops < MaxOps
    /\ IF mode = "ro" THEN Raise("add", "ReadOnlyDatabaseError")
       ELSE IF select_result(t, k) # "ok" THEN Raise("add", select_result(t, k))
       ELSE IF select(t, k).tag # v.tag THEN Raise("add", "TypeError")
       ELSE /\ InBounds(iadd(select(t, k), v))
            /\ Staged("add", Put(db_ref, t, Put(db_ref[t], k, iadd(select(t, k), v))),
                      log \cup {t})

\* remove that reports a missing table as a missing key
remove_key_error_only(t, k) ==
    /\ nops < MaxOps
    /\ IF mode = "ro" THEN Raise("remove", "ReadOnlyDatabaseError")
       ELSE IF t \notin DOMAIN db_ref THEN Raise("remove", "DBKeyError")
       ELSE IF k \notin DOMAIN db_ref[t] THEN Raise("remove", "DBKeyError")
       ELSE Staged("remove", Put(db_ref, t, Del(db_ref[t], k)), log \cup {t})

remove(t, k) ==
    /\ nops < MaxOps
    /\ IF mode = "ro" THEN Raise("remove", "ReadOnlyDatabaseError")
       ELSE IF t \notin DOMAIN db_ref THEN Raise("remove", "TableReferenceError")
       ELSE IF k \notin DOMAIN db_ref[t] THEN Raise("remove", "DBKeyError")
       ELSE Staged("remove", Put(db_ref, t, Del(db_ref[t], k)), log \cup {t})

\* remove_table without its read-only check
remove_table_unguarded(t) ==
    /\ nops < MaxOps
    /\ IF t \notin DOMAIN db_ref THEN Raise("remove_table", "TableReferenceError")
       ELSE Staged("remove_table", Del(db_ref, t), log \cup {t})

\* remove_table forgetting to log the removed name
remove_table_unlogged(t) ==
    /\ nops < MaxOps
    /\ IF mode = "ro" THEN Raise("remove_table", "ReadOnlyDatabaseError")
       ELSE IF t \notin DOMAIN db_ref THEN Raise("remove_table", "TableReferenceError")
       ELSE Staged("remove_table", Del(db_ref, t), log)

remove_table(t) ==
    /\ nops < MaxOps
    /\ IF mode = "ro" THEN Raise("remove_table", "ReadOnlyDatabaseError")
       ELSE IF t \notin DOMAIN db_ref THEN Raise("remove_table", "TableReferenceError")
       ELSE Staged("remove_table", Del(db_ref, t), log \cup {t})

\* --------------------------------------------------------- commit, rollback

\* SmallDB.save, its two loops, on the shelf contents db with staging area ref and
\* log lg: the set of possible (shelf, log, result).  The first loop deletes from
\* the shelf, and from the log, the logged tables that are staged no more.  The
\* second loop writes every table still in the log; self.db_ref[key] raises
\* KeyError for a logged table that is not staged, and the tables written before
\* it are those the dict's iteration order puts first (any subset W).
SaveLoops(db, ref, lg) ==
    LET dels == {t \in DOMAIN db : t \in lg /\ t \notin DOMAIN ref}
        db1  == [t \in (DOMAIN db) \ dels |-> db[t]]
        lg1  == lg \ dels
        bad  == {t \in lg1 : t \notin DOMAIN ref}
        Write(W) == [t \in (DOMAIN db1) \cup W |-> IF t \in W THEN ref[t] ELSE db1[t]]
    IN  IF bad = {}
        THEN {[db |-> Write(lg1), log |-> lg1, result |-> "ok"]}
        ELSE {[db |-> Write(W), log |-> lg1, result |-> "KeyError"] : W \in SUBSET (lg1 \ bad)}

\* save reloading the staging area from the shelf once its loops are through
SmallDB_save_reloads ==
    IF mode = "ro" THEN Raise("save", "ReadOnlyDatabaseError")
    ELSE IF handle # "open" THEN Raise("save", "ValueError")
    ELSE \E o \in SaveLoops(files[dbfile], db_ref, log) :
            /\ files' = [files EXCEPT ![dbfile] = o.db]
            /\ log' = o.log
            /\ db_ref' = LoadAll(o.db)
            /\ NoSnap
            /\ UNCHANGED <<exists, kind, mode, dbfile, handle, mode0, closed>>
            /\ Return("save", o.result)

SmallDB_save ==
    IF mode = "ro" THEN Raise("save", "ReadOnlyDatabaseError")
    \* iterating a closed shelf raises ValueError
    ELSE IF handle # "open" THEN Raise("save", "ValueError")
    ELSE \E o \in SaveLoops(files[dbfile], db_ref, log) :
            /\ files' = [files EXCEPT ![dbfile] = o.db]
            /\ log' = o.log
            /\ NoSnap
            /\ UNCHANGED <<exists, kind, mode, dbfile, db_ref, handle, mode0, closed>>
            /\ Return("save", o.result)

\* MemDB.save writing the staging area to the source file instead of passing
MemDB_save_persists ==
    /\ files' = (IF dbfile # None THEN [files EXCEPT ![dbfile] = db_ref] ELSE files)
    /\ NoSnap
    /\ UNCHANGED <<exists, kind, mode, dbfile, db_ref, log, handle, mode0, closed>>
    /\ Return("save", "ok")

\* MemDB.save: pass
MemDB_save ==
    /\ NoSnap
    /\ UNCHANGED <<files, exists, kind, mode, dbfile, db_ref, log, handle, mode0, closed>>
    /\ Return("save", "ok")

save ==
    /\ nops < MaxOps
    /\ IF kind = "MemDB" THEN MemDB_save ELSE SmallDB_save

\* drop: self.__init__(self.dbfile), so mode takes the constructor's default
drop ==
    /\ nops < MaxOps
    /\ IF mode = "ro" THEN Raise("drop", "ReadOnlyDatabaseError")
       ELSE /\ mode' = "rw"
            /\ db_ref' = Opened(dbfile)
            /\ log' = {}
            /\ handle' = HandleAfterOpen("rw")
            /\ exists' = Touched(dbfile)
            /\ NoSnap
            /\ UNCHANGED <<files, kind, dbfile, mode0, closed>>
            /\ Return("drop", "ok")

\* SmallDB.close up to self.db.close(): if len(self.log) != 0: self.save()
CloseOutcomes(db, ref, lg) ==
    IF lg # {} THEN SaveLoops(db, ref, lg)
    ELSE {[db |-> db, log |-> lg, result |-> "ok"]}

SmallDB_close ==
    IF log # {} /\ mode = "ro" THEN Raise("close", "ReadOnlyDatabaseError")
    ELSE IF log # {} /\ handle # "open" THEN Raise("close", "ValueError")
    ELSE \E o \in CloseOutcomes(files[dbfile], db_ref, log) :
            /\ files' = [files EXCEPT ![dbfile] = o.db]
            /\ log' = o.log
            \* self.db.close() is reached only when save() did not raise
            /\ handle' = (IF o.result = "ok" THEN "closed" ELSE handle)
            /\ closed' = (closed \/ o.result = "ok")
            /\ NoSnap
            /\ UNCHANGED <<exists, kind, mode, dbfile, db_ref, mode0>>
            /\ Return("close", o.result)

\* MemDB.close: pass
MemDB_close ==
    /\ closed' = TRUE
    /\ NoSnap
    /\ UNCHANGED <<files, exists, kind, mode, dbfile, db_ref, log, handle, mode0>>
    /\ Return("close", "ok")

close ==
    /\ nops < MaxOps
    /\ IF kind = "MemDB" THEN MemDB_close ELSE SmallDB_close

\* a new instance of the same class on the same file: SmallDB(dbfile, m) or
\* MemDB(dbfile, m); the instance used so far is discarded
Construct(m) ==
    /\ nops < MaxOps
    /\ mode' = m
    /\ mode0' = m
    /\ db_ref' = Opened(dbfile)
    /\ log' = {}
    /\ handle' = HandleAfterOpen(m)
    /\ exists' = Touched(dbfile)
    /\ closed' = FALSE
    /\ NoSnap
    /\ UNCHANGED <<files, kind, dbfile>>
    /\ Return("init", "ok")

\* ------------------------------------------------------------ MemDB only

replicate_from_smalldb(dbf) ==
    /\ nops < MaxOps
    /\ kind = "MemDB"
    /\ LET src == IF dbf = None /\ dbfile # None THEN dbfile ELSE dbf
       IN  /\ mode' = "rw"
           /\ dbfile' = src
           /\ db_ref' = MemDB_open(src)
           /\ log' = {}
           /\ exists' = Touched(src)
           /\ phase' = (IF phase = "exported" /\ src = snapFile THEN "imported" ELSE "none")
           /\ snap' = (IF phase = "exported" /\ src = snapFile THEN snap ELSE EmptyMap)
           /\ snapFile' = (IF phase = "exported" /\ src = snapFile THEN snapFile ELSE None)
           /\ UNCHANGED <<files, kind, handle, mode0, closed>>
           /\ Return("replicate_from_smalldb", "ok")

\* smalldb.save() then smalldb.close() on the target shelf: the possible
\* (shelf, result).  close() saves once more when the log is not empty.
ExportOutcomes(db, ref, lg) ==
    UNION { IF o.result # "ok"
            THEN {[db |-> o.db, result |-> o.result]}
            ELSE {[db |-> c.db, result |-> c.result] : c \in CloseOutcomes(o.db, ref, o.log)}
            : o \in SaveLoops(db, ref, lg) }

replicate_to_smalldb(dbf) ==
    /\ nops < MaxOps
    /\ kind = "MemDB"
    /\ LET tgt == IF dbf # None THEN dbf ELSE dbfile
       IN  IF tgt = None THEN Raise("replicate_to_smalldb", "DBInitializationError")
           ELSE \E o \in ExportOutcomes(files[tgt], deepcopy(db_ref), log) :
                   /\ files' = [files EXCEPT ![tgt] = o.db]
                   /\ exists' = Touched(tgt)
                   /\ phase' = (IF o.result = "ok" THEN "exported" ELSE "none")
                   /\ snap' = (IF o.result = "ok" THEN db_ref ELSE EmptyMap)
                   /\ snapFile' = (IF o.result = "ok" THEN tgt ELSE None)
                   /\ UNCHANGED <<kind, mode, dbfile, db_ref, log, handle, mode0, closed>>
                   /\ Return("replicate_to_smalldb", o.result)

Next ==
    \/ \E t \in Tables : create_table(t)
    \/ \E t \in Tables, k \in Keys \cup {None} : select_call(t, k)
    \/ \E t \in Tables : keys(t)
    \/ tables
    \/ \E t \in Tables, k \in Keys, v \in InsertVals : insert(t, k, v)
    \/ \E t \in Tables, k \in Keys, v \in InsertVals : update(t, k, v)
    \/ \E t \in Tables, k \in Keys, x \in AppendVals : append(t, k, x)
    \/ \E t \in Tables, k \in Keys, v \in AddVals : add(t, k, v)
    \/ \E t \in Tables, k \in Keys : remove(t, k)
    \/ \E t \in Tables : remove_table(t)
    \/ save
    \/ drop
    \/ close
    \/ \E m \in {"ro", "rw"} : Construct(m)
    \/ \E dbf \in Files \cup {None} : replicate_from_smalldb(dbf)
    \/ \E dbf \in Files \cup {None} : replicate_to_smalldb(dbf)

Spec == Init /\ [][Next]_vars

\* ------------------------------------------------------------------ claims

\* C1: after save() on a read-write SmallDB, closing the store and reopening the
\* same file gives a staging area equal to the one held at the moment of save().
C1_CommitRoundTrip ==
    (kind = "SmallDB" /\ mode = "rw" /\ handle = "open" /\ lastOp = "save")
        => \A c \in CloseOutcomes(files[dbfile], db_ref, log) : LoadAll(c.db) = db_ref

\* C2: after drop() on a read-write SmallDB the staging area equals, table for
\* table and key for key, the contents of the backend file.
C2_Rollback ==
    (kind = "SmallDB" /\ lastOp = "drop" /\ result = "ok") => db_ref = files[dbfile]

\* C2 witness: a drop that discarded staged changes
C2_Witness ==
    kind = "SmallDB" /\ lastOp = "drop" /\ result = "ok" /\ effect /\ db_ref # EmptyMap

\* C3: after a successful save() or drop() on a read-write SmallDB the
\* dirty-table log is empty.
C3_LogEmptyAfterCommit ==
    (kind = "SmallDB" /\ mode = "rw" /\ lastOp \in {"save", "drop"} /\ result = "ok")
        => log = {}

\* C4: save() on an open read-write SmallDB whose log names a table that is
\* neither staged nor in the backend (created, then removed, never saved) returns
\* normally, writes every other dirty table and leaves the backend without that
\* name.
C4_SaveToleratesStagedOnlyDelete ==
    [][ ( /\ kind = "SmallDB" /\ mode = "rw" /\ handle = "open"
          /\ lastOp' = "save"
          /\ \E t \in log : t \notin DOMAIN db_ref /\ t \notin DOMAIN files[dbfile] )
        => ( /\ result' = "ok"
             /\ \A t \in log :
                  IF t \in DOMAIN db_ref
                  THEN t \in DOMAIN files'[dbfile] /\ files'[dbfile][t] = db_ref[t]
                  ELSE t \notin DOMAIN files'[dbfile] ) ]_vars

\* C5 as claimed: on a store in mode 'ro' every mutating call, save included,
\* raises ReadOnlyDatabaseError and leaves staging area, log and backend alone.
C5_ReadOnlyGuard_AsClaimed ==
    [][ (mode = "ro" /\ lastOp' \in Mutators)
        => (result' = "ReadOnlyDatabaseError" /\ UNCHANGED <<db_ref, log, files>>) ]_vars

\* C5 amended: on a store in mode 'ro' every mutating call leaves staging area,
\* log and backend alone and raises ReadOnlyDatabaseError, except save() of a
\* MemDB, which returns normally.
C5_ReadOnlyGuard ==
    [][ (mode = "ro" /\ lastOp' \in Mutators)
        => ( /\ UNCHANGED <<db_ref, log, files>>
             /\ result' = IF kind = "MemDB" /\ lastOp' = "save"
                          THEN "ok" ELSE "ReadOnlyDatabaseError" ) ]_vars

\* C5 witness: a mutator rejected on a read-only store that holds the table
C5_Witness ==
    /\ mode = "ro" /\ lastOp = "remove_table" /\ result = "ReadOnlyDatabaseError"
    /\ db_ref # EmptyMap

\* C6: the mode of a store always equals the mode given at its construction.
C6_ModeFixed == mode = mode0

\* C7: once close() has returned on a SmallDB, every mutating call fails and
\* changes neither the staging area, nor the log, nor the backend.
C7_ClosedIsGuarded ==
    [][ (kind = "SmallDB" /\ closed /\ lastOp' \in Mutators)
        => (result' # "ok" /\ UNCHANGED <<db_ref, log, files>>) ]_vars

\* C8: replicate_to_smalldb(target) followed by a fresh import from target gives
\* a staging area equal to the MemDB's staging area at export time.
C8_ExportImportRoundTrip == phase = "imported" => db_ref = snap

\* C9: no MemDB operation other than replicate_to_smalldb changes what a backend
\* file holds; a file it creates (shelve.open on a new name) holds no table.
C9_MemDBNeverPersists ==
    [][ (kind = "MemDB" /\ lastOp' # "replicate_to_smalldb")
        => (files' = files /\ \A f \in exists' \ exists : files'[f] = EmptyMap) ]_vars

\* C9 witness: save() on a MemDB with staged changes that its source file lacks
C9_Witness ==
    /\ kind = "MemDB" /\ lastOp = "save" /\ result = "ok" /\ log # {}
    /\ dbfile # None /\ db_ref # files[dbfile]

\* C10: a mutating call on a read-write store that ends in an error leaves the
\* staging area and the dirty-table log as they were before the call.
C10_FailureAtomicity ==
    [][ (mode = "rw" /\ lastOp' \in Mutators /\ result' # "ok")
        => UNCHANGED <<db_ref, log>> ]_vars

\* C11: close() on an open read-write SmallDB with a non-empty log leaves the
\* backend holding exactly the staging area; with an empty log it writes nothing.
C11_CloseCommits ==
    [][ (kind = "SmallDB" /\ mode = "rw" /\ handle = "open" /\ lastOp' = "close")
        => IF log # {} THEN files'[dbfile] = db_ref ELSE files' = files ]_vars

\* C12: after insert(table, key, value) returns normally on a read-write store,
\* whether the table existed or was auto-created, select(table, key) returns
\* value, the table is in tables() and the table is in the dirty-table log.
C12_InsertThenSelect ==
    [][ (mode = "rw" /\ lastOp' = "insert" /\ result' = "ok")
        => \A t \in Tables, k \in Keys, v \in InsertVals :
             insert(t, k, v)
             => ( /\ t \in DOMAIN db_ref'
                  /\ k \in DOMAIN db_ref'[t]
                  /\ db_ref'[t][k] = v
                  /\ t \in log' ) ]_vars

\* C12 witness: an insert that returned normally and left its table dirty
C12_Witness ==
    /\ mode = "rw" /\ lastOp = "insert" /\ result = "ok" /\ effect
    /\ \E t \in log : t \in DOMAIN db_ref /\ DOMAIN db_ref[t] # {}

\* C13: insert(table, key, value) on a read-write store when key already exists
\* in table raises DuplicateKeyError and changes neither the staging area (the
\* stored value included), nor the dirty-table log, nor the backend.
C13_DuplicateInsertRejected ==
    [][ (mode = "rw" /\ lastOp' = "insert")
        => \A t \in Tables, k \in Keys, v \in InsertVals :
             (t \in DOMAIN db_ref /\ k \in DOMAIN db_ref[t] /\ insert(t, k, v))
             => (result' = "DuplicateKeyError" /\ UNCHANGED <<db_ref, log, files>>) ]_vars

\* C13 witness: a duplicate insert rejected while a staged table is clean
C13_Witness ==
    /\ mode = "rw" /\ lastOp = "insert" /\ result = "DuplicateKeyError"
    /\ \E t \in (DOMAIN db_ref) \ log : DOMAIN db_ref[t] # {}

\* C14: append on a value that cannot be appended to, and add on a value that
\* cannot be combined with the operand, raise an error instead of returning
\* normally, and do not mark the table dirty.
C14_UnsupportedSurfaces ==
    [][ (mode = "rw" /\ lastOp' \in {"append", "add"})
        => /\ \A t \in Tables, k \in Keys, x \in AppendVals :
                (select_result(t, k) = "ok" /\ select(t, k).tag # "list" /\ append(t, k, x))
                => (result' # "ok" /\ log' = log)
           /\ \A t \in Tables, k \in Keys, v \in AddVals :
                (select_result(t, k) = "ok" /\ select(t, k).tag # v.tag /\ add(t, k, v))
                => (result' # "ok" /\ log' = log) ]_vars

\* C15: on a table absent from the staging area, select and keys (in any mode)
\* and remove, update and remove_table (on a read-write store) raise
\* TableReferenceError, while insert creates the table; select and remove on an
\* existing table with an absent key raise DBKeyError; an absent table is
\* reported before an absent key.
C15_MissingTableAndKey ==
    [][ /\ lastOp' = "select"
           => \A t \in Tables, k \in Keys \cup {None} :
                /\ (t \notin DOMAIN db_ref /\ select_call(t, k))
                   => result' = "TableReferenceError"
                /\ (t \in DOMAIN db_ref /\ k # None /\ k \notin DOMAIN db_ref[t]
                      /\ select_call(t, k))
                   => result' = "DBKeyError"
        /\ lastOp' = "keys"
           => \A t \in Tables :
                (t \notin DOMAIN db_ref /\ keys(t)) => result' = "TableReferenceError"
        /\ (lastOp' = "remove" /\ mode = "rw")
           => \A t \in Tables, k \in Keys :
                /\ (t \notin DOMAIN db_ref /\ remove(t, k))
                   => result' = "TableReferenceError"
                /\ (t \in DOMAIN db_ref /\ k \notin DOMAIN db_ref[t] /\ remove(t, k))
                   => result' = "DBKeyError"
        /\ (lastOp' = "update" /\ mode = "rw")
           => \A t \in Tables, k \in Keys, v \in InsertVals :
                (t \notin DOMAIN db_ref /\ update(t, k, v))
                => result' = "TableReferenceError"
        /\ (lastOp' = "remove_table" /\ mode = "rw")
           => \A t \in Tables :
                (t \notin DOMAIN db_ref /\ remove_table(t))
                => result' = "TableReferenceError"
        /\ (lastOp' = "insert" /\ mode = "rw")
           => \A t \in Tables, k \in Keys, v \in InsertVals :
                (t \notin DOMAIN db_ref /\ insert(t, k, v))
                => (result' = "ok" /\ t \in DOMAIN db_ref') ]_vars

\* C15 witness: remove on a read-write store that lacks the table while holding
\* another one
C15_Witness ==
    /\ mode = "rw" /\ lastOp = "remove" /\ result = "TableReferenceError"
    /\ db_ref # EmptyMap

\* C16: from every reachable state of an open read-write SmallDB, close()
\* returns normally and leaves the backend handle closed.
C16_CloseReachesClosed ==
    [][ (kind = "SmallDB" /\ mode = "rw" /\ handle = "open" /\ lastOp' = "close")
        => (result' = "ok" /\ handle' = "closed") ]_vars

\* C17: create_table on a name already staged, on an open read-write SmallDB,
\* returns normally, replaces the table by an empty one, marks it dirty, and the
\* save() that follows returns with the table persisted as empty.
C17_CreateExistingTable ==
    [][ (kind = "SmallDB" /\ mode = "rw" /\ handle = "open" /\ lastOp' = "create_table")
        => \A t \in Tables :
             (t \in DOMAIN db_ref /\ create_table(t))
             => ( /\ result' = "ok"
                  /\ db_ref' = Put(db_ref, t, EmptyMap)
                  /\ t \in log'
                  /\ \A o \in SaveLoops(files'[dbfile'], db_ref', log') :
                       /\ o.result = "ok"
                       /\ t \in DOMAIN o.db
                       /\ o.db[t] = EmptyMap ) ]_vars

C19_CleanTablesMirrorBackend ==
    (kind = "SmallDB" /\ mode = "rw" /\ handle = "open")
    => \A t \in Tables \ log :
         IF t \in DOMAIN db_ref
         THEN t \in DOMAIN files[dbfile] /\ files[dbfile][t] = db_ref[t]
         ELSE t \notin DOMAIN files[dbfile]

\* a mutator has just changed one table while another, holding a record, is clean
C19_Witness ==
    /\ kind = "SmallDB" /\ mode = "rw" /\ handle = "open"
    /\ lastOp \in Mutators /\ result = "ok" /\ effect
    /\ log # {}
    /\ \E t \in (DOMAIN db_ref) \ log : DOMAIN db_ref[t] # {}

\* C20: save() and close(), of SmallDB and of MemDB, whether they return or
\* raise, leave the staging area as it was, hence the results of select, keys
\* and tables as well.
C20_CommitKeepsStaging ==
    [][ lastOp' \in {"save", "close"}
        => /\ db_ref' = db_ref
           /\ \A t \in Tables :
                /\ keys_result(t)' = keys_result(t)
                /\ \A k \in Keys : select_result(t, k)' = select_result(t, k) ]_vars

\* a SmallDB commit has just written a staged table that holds a record
C20_Witness ==
    /\ kind = "SmallDB" /\ lastOp \in {"save", "close"} /\ result = "ok"
    /\ \E t \in log : /\ t \in DOMAIN db_ref /\ DOMAIN db_ref[t] # {}
                      /\ t \in DOMAIN files[dbfile] /\ files[dbfile][t] = db_ref[t]

====
